---- MODULE Spec2Model ----
(***************************************************************************)
(* A model of TrunkFatApp/app.py: the model loader (load_model,            *)
(* fix_xgboost_model_attributes, deep_fix_xgboost_model), the POST         *)
(* /predict handler, the interpretation functions and GET /health.         *)
(*                                                                         *)
(* Percentages are integers counted in fortieths of a percent, so that a   *)
(* raw prediction given in quarters of a percent (exact as a binary float) *)
(* and a result rounded to tenths are both integers.  A Python exception   *)
(* is a field of the value an operator returns.                            *)
(***************************************************************************)
EXTENDS Integers, Sequences, FiniteSets, TLC

VARIABLES
  phase,          \* position of the process: "boot", "serving", "crashed", ...
  model,          \* the module-level global `model` (line 157)
  req,            \* the JSON body of the last POST /predict
  resp,           \* the last HTTP response
  features,       \* the feature vector handed to the last model.predict call
  calls,          \* what the predictor and the loader did in the last request
  loaderCalls,    \* load_model() calls made by the last request
  predictCalls,   \* model.predict() calls made by the handler in the last request
  tmpLeaked,      \* a temporary ".model" file of deep repair still exists
  loadEnv,        \* what the environment does during a load_model() run
  loadTrace,      \* what the last load_model() run did
  percentage,     \* argument of get_interpretation
  interpretation  \* result of get_interpretation

vars == <<phase, model, req, resp, features, calls, loaderCalls, predictCalls,
          tmpLeaked, loadEnv, loadTrace, percentage, interpretation>>

----------------------------------------------------------------------------
(* Bounds *)

\* raw predictions tried lie within this many quarters of a percent of a threshold
RawSpread == 1

----------------------------------------------------------------------------
(* Numbers *)

\* round(prediction, 1): one tenth of a percent, which is 4 fortieths
Tenth == 4
\* a quarter of a percent, the grid of the raw predictions: 2.5 tenths
Quarter == (5 * Tenth) \div 2

\* max(5.0, min(50.0, ...)) at line 233: 5.0 and 50.0
CLAMP_LO == 200
CLAMP_HI == 2000
\* the thresholds of get_interpretation and _get_recommendation: 28.6, 20,
\* 25 and 35
CUTOFF == 1144
T20 == 800
T25 == 1000
T35 == 1400

\* a Python float: finite (v, in fortieths), nan, inf or -inf
Fin(v) == [kind |-> "fin", v |-> v]
NaN == [kind |-> "nan", v |-> 0]
PosInf == [kind |-> "inf", v |-> 0]
NegInf == [kind |-> "-inf", v |-> 0]

\* a < b on Python floats: every comparison with nan is false
FLt(a, b) ==
  CASE a.kind = "nan" \/ b.kind = "nan" -> FALSE
    [] a.kind = "-inf" -> b.kind # "-inf"
    [] a.kind = "inf" -> FALSE
    [] b.kind = "-inf" -> FALSE
    [] b.kind = "inf" -> TRUE
    [] OTHER -> a.v < b.v

\* Python's min(a, b): a unless b < a
pymin(a, b) == IF FLt(b, a) THEN b ELSE a

\* Python's max(a, b): a unless b > a
pymax(a, b) == IF FLt(a, b) THEN b ELSE a

\* a clamp that forgot the lower bound
clamp_upper_only(x) == pymin(Fin(CLAMP_HI), x)

\* max(5.0, min(50.0, float(prediction)))
clamp(x) == pymax(Fin(CLAMP_LO), pymin(Fin(CLAMP_HI), x))

\* round(x, 1) of an exactly representable x: to the nearest tenth, a tie to
\* the even tenth
round1(x) ==
  IF x.kind # "fin" THEN x
  ELSE LET t == x.v \div Tenth
           r == x.v % Tenth
           up == (2 * r > Tenth) \/ (2 * r = Tenth /\ t % 2 = 1)
       IN Fin(Tenth * (IF up THEN t + 1 ELSE t))

----------------------------------------------------------------------------
(* Interpretation: get_interpretation and _get_recommendation.  The advice *)
(* texts are named by short tags.                                          *)

REC_HIGH == <<"more_aerobic_exercise", "less_refined_carbs_and_saturated_fat",
              "more_fibre_and_protein", "monitor_glucose_and_lipids">>
REC_VERY_HIGH == <<"medical_nutrition_therapy", "oral_glucose_tolerance_test">>
REC_LOW == <<"keep_healthy_habits", "monitor_body_composition">>

\* the recommendation as a single-branch switch
_get_recommendation_elif(p) ==
  IF p >= T35 THEN REC_VERY_HIGH
  ELSE IF p >= CUTOFF THEN REC_HIGH
  ELSE IF p < T25 THEN REC_LOW
  ELSE <<>>

\* the three independent `if`s of _get_recommendation, in order
_get_recommendation(p) ==
  (IF p >= CUTOFF THEN REC_HIGH ELSE <<>>)
    \o (IF p >= T35 THEN REC_VERY_HIGH ELSE <<>>)
    \o (IF p < T25 THEN REC_LOW ELSE <<>>)

get_interpretation(p) ==
  [risk_level |-> IF p < CUTOFF THEN "lower" ELSE "higher",
   advice |-> IF p < CUTOFF THEN "in_healthy_range" ELSE "raised_metabolic_risk",
   detailed_advice |->
     IF p < T20 THEN "excellent"
     ELSE IF p < T25 THEN "good"
     ELSE IF p < CUTOFF THEN "near_cutoff"
     ELSE IF p < T35 THEN "attention"
     ELSE "seek_medical_guidance",
   cutoff_note |-> <<CUTOFF, p>>,
   recommendation |-> _get_recommendation(p)]

NoInterpretation ==
  [risk_level |-> "", advice |-> "", detailed_advice |-> "",
   cutoff_note |-> <<>>, recommendation |-> <<>>]

----------------------------------------------------------------------------
(* The request body and its validation (lines 173-199).                    *)

required_fields == <<"gender", "waist", "height", "weight", "age">>
NumericFields == <<"waist", "height", "weight", "age">>

\* the inclusive ranges of lines 189-196
RANGE ==
  [waist |-> [lo |-> 50, hi |-> 200, error |-> "waist_range"],
   height |-> [lo |-> 100, hi |-> 250, error |-> "height_range"],
   weight |-> [lo |-> 30, hi |-> 200, error |-> "weight_range"],
   age |-> [lo |-> 18, hi |-> 100, error |-> "age_range"]]

\* the self-test input of line 87, also a request every check accepts
Example ==
  [gender |-> [kind |-> "str", s |-> "male"],
   waist |-> [kind |-> "num", v |-> 85],
   height |-> [kind |-> "num", v |-> 175],
   weight |-> [kind |-> "num", v |-> 72],
   age |-> [kind |-> "num", v |-> 45]]

\* A JSON value of a numeric field: missing from the object, null, a list,
\* an object, a string that is no number, a string that is one, a number.
Absent == [kind |-> "absent", v |-> 0]
NonNumbers == {[kind |-> k, v |-> 0] : k \in {"null", "list", "object", "badstr"}}
NumericValues(f) ==
  {Absent} \cup NonNumbers
    \cup {[kind |-> "numstr", v |-> Example[f].v]}
    \cup {[kind |-> "num", v |-> n] :
            n \in {RANGE[f].lo - 1, RANGE[f].lo, Example[f].v, RANGE[f].hi, RANGE[f].hi + 1}}
GenderValues ==
  {[kind |-> "absent", s |-> ""], [kind |-> "nonstr", s |-> ""]}
    \cup {[kind |-> "str", s |-> g] : g \in {"female", "Female", "male"}}

AllRequests ==
  [gender : GenderValues, waist : NumericValues("waist"),
   height : NumericValues("height"), weight : NumericValues("weight"),
   age : NumericValues("age")]

\* Example, Example with another gender value, and Example with one numeric
\* field replaced by a value the validation does not accept
Rejected(f) ==
  {Absent} \cup NonNumbers
    \cup {[kind |-> "num", v |-> n] : n \in {RANGE[f].lo - 1, RANGE[f].hi + 1}}
ServiceRequests ==
  {[Example EXCEPT !.gender = g] : g \in GenderValues}
    \cup UNION {{[Example EXCEPT ![NumericFields[k]] = x] : x \in Rejected(NumericFields[k])} :
                 k \in 1..4}

\* `field not in data`
Has(r, f) == r[f].kind # "absent"

\* float(x): the number, ValueError for a string that is none, TypeError for
\* null, a list or an object
float(x) ==
  CASE x.kind \in {"num", "numstr"} -> [exc |-> "", v |-> x.v]
    [] x.kind = "badstr" -> [exc |-> "ValueError", v |-> 0]
    [] OTHER -> [exc |-> "TypeError", v |-> 0]

\* the first i in 1..Len(s) with P, or Len(s)+1
RECURSIVE FirstFrom(_, _, _)
FirstFrom(flags, i, n) ==
  IF i > n THEN n + 1 ELSE IF flags[i] THEN i ELSE FirstFrom(flags, i + 1, n)
First(flags) == FirstFrom(flags, 1, Len(flags))

\* lines 176-179: the first required field the body lacks, 0 if none
MissingField(r) ==
  LET i == First([k \in 1..5 |-> ~Has(r, required_fields[k])])
  IN IF i > 5 THEN 0 ELSE i

\* lines 182-199: the four float() calls, then the four range checks; a
\* ValueError is answered 400, any other exception leaves the inner try
validate_numbers(r) ==
  LET parsed == [k \in 1..4 |-> float(r[NumericFields[k]])]
      bad == First([k \in 1..4 |-> parsed[k].exc # ""])
      out == First([k \in 1..4 |->
                 ~(RANGE[NumericFields[k]].lo <= parsed[k].v
                     /\ parsed[k].v <= RANGE[NumericFields[k]].hi)])
  IN IF bad <= 4
       THEN IF parsed[bad].exc = "ValueError"
              THEN [outcome |-> "reject", error |-> "invalid_number"]
              ELSE [outcome |-> "raise", error |-> parsed[bad].exc]
     ELSE IF out <= 4
       THEN [outcome |-> "reject", error |-> RANGE[NumericFields[out]].error]
     ELSE [outcome |-> "ok", error |-> ""]

\* line 179: the message names the field
MISSING_ERROR ==
  <<"missing_gender", "missing_waist", "missing_height", "missing_weight", "missing_age">>

\* lines 175-199
validate(r) ==
  IF MissingField(r) # 0
    THEN [outcome |-> "reject", error |-> MISSING_ERROR[MissingField(r)]]
    ELSE validate_numbers(r)

\* line 203: 1 if data['gender'].lower() == 'female' else 0; .lower() of a
\* value that is no string raises AttributeError
lower(s) == IF s = "Female" THEN "female" ELSE s
Female(r) ==
  IF r.gender.kind # "str" THEN [exc |-> "AttributeError", v |-> 0]
  ELSE [exc |-> "", v |-> IF lower(r.gender.s) = "female" THEN 1 ELSE 0]

FEATURE_ORDER == <<"Female", "Waist", "Height", "Weight", "Age">>

\* lines 202-211
feature_array(r) ==
  <<Female(r).v, float(r.waist).v, float(r.height).v, float(r.weight).v, float(r.age).v>>

----------------------------------------------------------------------------
(* The model loader (lines 10-154).                                        *)

\* a predictor: the unpickled object or the one deep repair rebuilt;
\* `patched` says that get_params was replaced (line 32)
None == [kind |-> "none", patched |-> FALSE]
Original == [kind |-> "original", patched |-> FALSE]
Rebuilt == [kind |-> "rebuilt", patched |-> FALSE]

\* What the environment does during one load_model() run: where the artifact
\* is, whether joblib.load, the compatibility patch and the two self-test
\* predict calls succeed, the type of the unpickled object, whether it has a
\* _Booster, and the first step of deep repair that raises, if any.
RepairSteps == <<"import", "ctor", "tmpfile", "save", "fit", "load", "unlink">>
LoadEnvs ==
  [artifact : {"primary", "secondary", "missing"},
   joblibOK : BOOLEAN, patchOK : BOOLEAN, test1OK : BOOLEAN, test2OK : BOOLEAN,
   family : {"XGBRegressor", "other"}, hasBooster : BOOLEAN,
   repairFail : {"none"} \cup {RepairSteps[i] : i \in 1..Len(RepairSteps)}]
NoEnv ==
  [artifact |-> "none",
   joblibOK |-> FALSE, patchOK |-> FALSE, test1OK |-> FALSE, test2OK |-> FALSE,
   family |-> "other", hasBooster |-> FALSE, repairFail |-> "none"]

\* the step of deep repair named `step` is reached and does not raise
StepIndex(step) == CHOOSE i \in 1..Len(RepairSteps) : RepairSteps[i] = step
Passes(e, step) ==
  e.repairFail = "none" \/ StepIndex(step) < StepIndex(e.repairFail)

\* lines 10-64: returns the same object, patched unless the patching raised
fix_xgboost_model_attributes(m, e) ==
  IF e.patchOK THEN [m EXCEPT !.patched = TRUE] ELSE m

\* lines 130-148, the inner try: the temporary file is created with
\* delete=False (131), the booster saved into it (133), the new predictor
\* fitted (138), the file loaded back (141) and unlinked (142).  `left` says
\* that the file exists when the block is left.
transplant(e) ==
  LET created == Passes(e, "tmpfile")
      unlinked == Passes(e, "unlink")
  IN [ok |-> e.repairFail = "none", created |-> created,
      left |-> created /\ ~unlinked]

\* lines 107-154: never raises; returns the rebuilt predictor after a
\* successful transplant and the predictor it was given otherwise
deep_fix_xgboost_model(m, e) ==
  LET asGiven == [value |-> m, created |-> FALSE, left |-> FALSE]
  IN IF ~Passes(e, "import") THEN asGiven
     ELSE IF e.family # "XGBRegressor" THEN asGiven
     ELSE IF ~Passes(e, "ctor") THEN asGiven
     ELSE IF ~e.hasBooster THEN asGiven
     ELSE LET t == transplant(e)
          IN [value |-> IF t.ok THEN Rebuilt ELSE m,
              created |-> t.created, left |-> t.left]

\* the record of a load_model() run: whether it raised, what it returned,
\* how many self-test predict calls it made, the predictor the last of them
\* was made on and whether that call succeeded, whether deep repair ran, and
\* the temporary file
NoTrace ==
  [raised |-> FALSE, value |-> None, tests |-> 0, lastTestOn |-> None,
   lastTestOK |-> FALSE, deepFix |-> FALSE, created |-> FALSE, left |-> FALSE]

\* a body that returns what deep repair handed back without the re-test
load_model_body_no_retest(e) ==
  IF e.artifact = "missing" \/ ~e.joblibOK
    THEN [NoTrace EXCEPT !.raised = TRUE]
    ELSE
      LET m == fix_xgboost_model_attributes(Original, e)
          d == deep_fix_xgboost_model(m, e)
      IN IF e.test1OK
           THEN [NoTrace EXCEPT !.value = m, !.tests = 1, !.lastTestOn = m,
                                !.lastTestOK = TRUE]
           ELSE [raised |-> FALSE, value |-> d.value, tests |-> 1,
                 lastTestOn |-> m, lastTestOK |-> FALSE, deepFix |-> TRUE,
                 created |-> d.created, left |-> d.left]

\* lines 67-99, the body of the outer try
load_model_body(e) ==
  IF e.artifact = "missing" \/ ~e.joblibOK
    THEN [NoTrace EXCEPT !.raised = TRUE]
    ELSE
      LET m == fix_xgboost_model_attributes(Original, e)
      IN IF e.test1OK
           THEN [NoTrace EXCEPT !.value = m, !.tests = 1, !.lastTestOn = m,
                                !.lastTestOK = TRUE]
           ELSE
             LET d == deep_fix_xgboost_model(m, e)
             IN [raised |-> ~e.test2OK,
                 value |-> IF e.test2OK THEN d.value ELSE None,
                 tests |-> 2, lastTestOn |-> d.value, lastTestOK |-> e.test2OK,
                 deepFix |-> TRUE, created |-> d.created, left |-> d.left]

\* a loader without the outer except
load_model_uncaught(e) == load_model_body(e)

\* lines 66-105: `except Exception` turns whatever the body raised into None
load_model(e) ==
  LET b == load_model_body(e)
  IN IF b.raised THEN [b EXCEPT !.raised = FALSE, !.value = None] ELSE b

\* what a load_model() run can do
LoadResults == {load_model(e) : e \in LoadEnvs}

----------------------------------------------------------------------------
(* POST /predict (lines 167-248).                                          *)

\* what one model.predict(feature_array) call does: it raises, or returns a
\* float; the predictor is opaque, so every call may do either
Throw == [kind |-> "throw", x |-> NaN]
Returns(x) == [kind |-> "value", x |-> x]
NoCall == [kind |-> "nocall", x |-> NaN]

ThresholdQuarters ==
  {t \div Quarter : t \in {CLAMP_LO, T20, T25, CUTOFF, T35, CLAMP_HI}}
RawValues ==
  {Fin(Quarter * (t + d)) : t \in ThresholdQuarters, d \in (0 - RawSpread)..RawSpread}
    \cup {NaN, PosInf, NegInf}
PredictOutcomes == {Throw} \cup {Returns(x) : x \in RawValues}

\* what the handler sees of a load_model() run
Outcome(t) == [raised |-> t.raised, value |-> t.value, left |-> t.left]
LoadOutcomes == {Outcome(t) : t \in LoadResults}
NoLoad == [raised |-> FALSE, value |-> None, left |-> FALSE]

NoPct == 0 - 1

\* jsonify({'error': ...}), code
Error(code, error, m) ==
  [code |-> code, error |-> error, success |-> FALSE, pct |-> NoPct,
   interpretation |-> NoInterpretation, model |-> m, features |-> <<>>,
   loaderCalls |-> 0, predictCalls |-> 0, left |-> FALSE]

\* lines 232-242: clamp, round, interpret, answer 200
respond(x, m, f) ==
  LET prediction_rounded == round1(clamp(x)).v
  IN [code |-> 200, error |-> "", success |-> TRUE, pct |-> prediction_rounded,
      interpretation |-> get_interpretation(prediction_rounded), model |-> m,
      features |-> f, loaderCalls |-> 0, predictCalls |-> 1, left |-> FALSE]

\* the 500 of the recovery path, after `loads` load_model() calls and `n`
\* predict calls, with `global` the value of the global `model`
Failed(r, lr, error, global, loads, n) ==
  [Error(500, error, global) EXCEPT
     !.loaderCalls = loads, !.predictCalls = n, !.features = feature_array(r),
     !.left = lr.left]

\* a recovery that, when the retry fails too, reloads and retries again
recover_in_a_loop(m, r, lr, p2) ==
  IF lr.raised THEN Failed(r, lr, "predict_failed", m, 1, 1)
  ELSE IF lr.value = None THEN Failed(r, lr, "model_repair_failed", lr.value, 1, 1)
  ELSE IF p2.kind = "throw" THEN Failed(r, lr, "predict_failed", lr.value, 2, 3)
  ELSE [respond(p2.x, lr.value, feature_array(r)) EXCEPT
          !.loaderCalls = 1, !.predictCalls = 2, !.left = lr.left]

\* lines 222-230, the handler of a failed first predict call: load_model()
\* once, store what it returned in the global, 500 if that is None, else
\* predict once more; a second failure reaches the outer except (244-248),
\* as would an exception of load_model(), which leaves the global as it was
recover(m, r, lr, p2) ==
  IF lr.raised THEN Failed(r, lr, "predict_failed", m, 1, 1)
  ELSE IF lr.value = None THEN Failed(r, lr, "model_repair_failed", lr.value, 1, 1)
  ELSE IF p2.kind = "throw" THEN Failed(r, lr, "predict_failed", lr.value, 1, 2)
  ELSE [respond(p2.x, lr.value, feature_array(r)) EXCEPT
          !.loaderCalls = 1, !.predictCalls = 2, !.left = lr.left]

\* a handler that never gives up at line 214
model_is_None_skipped(m) == FALSE

\* line 214: the handler gives up when the global is None
model_is_None(m) == m = None

\* lines 171-248: the handler, given the global `model`, the body, and what
\* the first predict call, the reload and the second predict call do
predict(m, r, p1, lr, p2) ==
  LET v == validate(r)
  IN IF v.outcome = "reject" THEN Error(400, v.error, m)
     ELSE IF v.outcome = "raise" THEN Error(500, "predict_failed", m)
     ELSE IF Female(r).exc # "" THEN Error(500, "predict_failed", m)
     ELSE IF model_is_None(m) THEN Error(500, "model_not_loaded", m)
     ELSE IF p1.kind = "throw" THEN recover(m, r, lr, p2)
     ELSE respond(p1.x, m, feature_array(r))

\* the handler reaches line 220
ReachesPredict(m, r) ==
  validate(r).outcome = "ok" /\ Female(r).exc = "" /\ ~model_is_None(m)

----------------------------------------------------------------------------
(* GET /health (lines 295-302).                                            *)

\* a health check that reports a fixed status
health_check_fixed(m) ==
  [status |-> "healthy", model_loaded |-> m # None, features |-> FEATURE_ORDER]

health_check(m) ==
  [status |-> IF m # None THEN "healthy" ELSE "model_not_loaded",
   model_loaded |-> m # None,
   features |-> FEATURE_ORDER]

NoHealth == [status |-> "", model_loaded |-> FALSE, features |-> <<>>]

----------------------------------------------------------------------------
(* The process.                                                            *)

NoReq ==
  [gender |-> [kind |-> "none", s |-> ""], waist |-> [kind |-> "none", v |-> 0],
   height |-> [kind |-> "none", v |-> 0], weight |-> [kind |-> "none", v |-> 0],
   age |-> [kind |-> "none", v |-> 0]]
NoResp ==
  [kind |-> "none", code |-> 0, error |-> "", success |-> FALSE, pct |-> NoPct,
   interpretation |-> NoInterpretation, health |-> NoHealth]
NoCalls == [p1 |-> NoCall, lr |-> NoLoad, p2 |-> NoCall]

Idle ==
  /\ model = None /\ req = NoReq /\ resp = NoResp /\ features = <<>>
  /\ calls = NoCalls /\ loaderCalls = 0 /\ predictCalls = 0
  /\ tmpLeaked = FALSE /\ loadTrace = NoTrace
  /\ percentage = NoPct /\ interpretation = NoInterpretation

\* the process before line 157
Init == phase = "boot" /\ loadEnv = NoEnv /\ Idle

\* line 157: model = load_model(); an exception here would end the process
Startup ==
  /\ phase = "boot"
  /\ \E lr \in LoadOutcomes :
       /\ phase' = IF lr.raised THEN "crashed" ELSE "serving"
       /\ model' = lr.value
       /\ tmpLeaked' = (tmpLeaked \/ lr.left)
  /\ UNCHANGED <<req, resp, features, calls, loaderCalls, predictCalls,
                 loadEnv, loadTrace, percentage, interpretation>>

\* the calls the handler gets to make decide what the environment is asked
P1Set(m, r) == IF ReachesPredict(m, r) THEN PredictOutcomes ELSE {NoCall}
LRSet(p1) == IF p1.kind = "throw" THEN LoadOutcomes ELSE {NoLoad}
P2Set(p1, lr) ==
  IF p1.kind = "throw" /\ ~lr.raised /\ lr.value # None
    THEN PredictOutcomes ELSE {NoCall}

\* one POST /predict with body r, from the request to the response
Handle(r) ==
  \E p1 \in P1Set(model, r) : \E lr \in LRSet(p1) : \E p2 \in P2Set(p1, lr) :
    \E out \in {predict(model, r, p1, lr, p2)} :
       /\ req' = r
       /\ calls' = [p1 |-> p1, lr |-> lr, p2 |-> p2]
       /\ model' = out.model
       /\ resp' = [kind |-> "predict", code |-> out.code, error |-> out.error,
                   success |-> out.success, pct |-> out.pct,
                   interpretation |-> out.interpretation, health |-> NoHealth]
       /\ features' = out.features
       /\ loaderCalls' = out.loaderCalls
       /\ predictCalls' = out.predictCalls
       /\ tmpLeaked' = (tmpLeaked \/ out.left)

HandlePredict ==
  /\ phase = "serving"
  /\ \E r \in ServiceRequests : Handle(r)
  /\ UNCHANGED <<phase, loadEnv, loadTrace, percentage, interpretation>>

\* one GET /health
HandleHealth ==
  /\ phase \in {"serving", "loaded"}
  /\ resp' = [NoResp EXCEPT !.kind = "health", !.code = 200,
                            !.health = health_check(model)]
  /\ req' = NoReq /\ calls' = NoCalls /\ features' = <<>>
  /\ loaderCalls' = 0 /\ predictCalls' = 0
  /\ UNCHANGED <<phase, model, tmpLeaked, loadEnv, loadTrace, percentage,
                 interpretation>>

Next == Startup \/ HandlePredict \/ HandleHealth

Spec == Init /\ [][Next]_vars

----------------------------------------------------------------------------
(* One load_model() run under every environment, then health checks.       *)

InitLoad == phase = "loading" /\ loadEnv \in LoadEnvs /\ Idle

RunLoad ==
  /\ phase = "loading"
  /\ LET t == load_model(loadEnv)
     IN /\ loadTrace' = t
        /\ phase' = IF t.raised THEN "crashed" ELSE "loaded"
        /\ model' = t.value
        /\ tmpLeaked' = (tmpLeaked \/ t.left)
  /\ UNCHANGED <<req, resp, features, calls, loaderCalls, predictCalls,
                 loadEnv, percentage, interpretation>>

NextLoad == RunLoad \/ HandleHealth

SpecLoad == InitLoad /\ [][NextLoad]_vars

----------------------------------------------------------------------------
(* One POST /predict for every body, with and without a predictor.         *)

InitRequest ==
  /\ phase = "received"
  /\ req \in AllRequests
  /\ model \in {None, [Original EXCEPT !.patched = TRUE]}
  /\ resp = NoResp /\ features = <<>> /\ calls = NoCalls
  /\ loaderCalls = 0 /\ predictCalls = 0 /\ tmpLeaked = FALSE
  /\ loadEnv = NoEnv /\ loadTrace = NoTrace
  /\ percentage = NoPct /\ interpretation = NoInterpretation

Answer ==
  /\ phase = "received"
  /\ Handle(req)
  /\ phase' = "answered"
  /\ UNCHANGED <<loadEnv, loadTrace, percentage, interpretation>>

NextRequest == Answer

SpecRequest == InitRequest /\ [][NextRequest]_vars

----------------------------------------------------------------------------
(* get_interpretation on every percentage the handler can pass it: the     *)
(* tenths from 5.0 to 50.0.                                                *)

Percentages == {Tenth * k : k \in (CLAMP_LO \div Tenth)..(CLAMP_HI \div Tenth)}

InitInterpret ==
  /\ phase = "interpret"
  /\ percentage \in Percentages
  /\ model = None /\ req = NoReq /\ resp = NoResp /\ features = <<>>
  /\ calls = NoCalls /\ loaderCalls = 0 /\ predictCalls = 0
  /\ tmpLeaked = FALSE /\ loadEnv = NoEnv /\ loadTrace = NoTrace
  /\ interpretation = NoInterpretation

Interpret ==
  /\ phase = "interpret"
  /\ interpretation' = get_interpretation(percentage)
  /\ phase' = "interpreted"
  /\ UNCHANGED <<model, req, resp, features, calls, loaderCalls, predictCalls,
                 tmpLeaked, loadEnv, loadTrace, percentage>>

NextInterpret == Interpret

SpecInterpret == InitInterpret /\ [][NextInterpret]_vars

----------------------------------------------------------------------------
(* Properties.                                                             *)

\* a value float() turns into a number
Parses(x) == x.kind \in {"num", "numstr"}
InRange(f, x) == RANGE[f].lo <= x.v /\ x.v <= RANGE[f].hi
AllPresent(r) == \A i \in 1..5 : r[required_fields[i]].kind # "absent"
AllParse(r) == \A k \in 1..4 : Parses(r[NumericFields[k]])
\* a body that meets the input contract: the five fields, a string gender,
\* four numbers within their ranges
ValidRequest(r) ==
  /\ AllPresent(r) /\ AllParse(r) /\ r.gender.kind = "str"
  /\ \A k \in 1..4 : InRange(NumericFields[k], r[NumericFields[k]])

\* the error of the earliest failing check, in the order presence (gender,
\* waist, height, weight, age), parsing, ranges (waist, height, weight, age);
\* "" when every check passes
FirstFailingCheck(r) ==
  IF ~AllPresent(r)
    THEN LET i == CHOOSE i \in 1..5 :
                    /\ r[required_fields[i]].kind = "absent"
                    /\ \A j \in 1..(i - 1) : r[required_fields[j]].kind # "absent"
         IN MISSING_ERROR[i]
  ELSE IF ~AllParse(r) THEN "invalid_number"
  ELSE IF \E k \in 1..4 : ~InRange(NumericFields[k], r[NumericFields[k]])
    THEN LET k == CHOOSE k \in 1..4 :
                    /\ ~InRange(NumericFields[k], r[NumericFields[k]])
                    /\ \A j \in 1..(k - 1) : InRange(NumericFields[j], r[NumericFields[j]])
         IN RANGE[NumericFields[k]].error
  ELSE ""

\* C1: a POST /predict that fails a check is answered 400 with the error of
\* the earliest failing check: presence in field order, then parsing of all
\* four numbers, then the inclusive ranges in field order.
C1_FirstFailingCheckDecides ==
  (phase = "answered" /\ FirstFailingCheck(req) # "")
    => (resp.code = 400 /\ resp.error = FirstFailingCheck(req))

\* C2: when the first predict call throws, the handler calls load_model()
\* once, stores what it returned as the global predictor and retries predict
\* once; a None reload or a failed retry is answered 500; no request calls
\* the loader more than once or predict more than twice.
C2_OneRecovery ==
  resp.kind = "predict" =>
    /\ loaderCalls <= 1 /\ predictCalls <= 2
    /\ calls.p1.kind # "throw" => loaderCalls = 0
    /\ calls.p1.kind = "throw" =>
         /\ loaderCalls = 1
         /\ model = calls.lr.value
         /\ predictCalls = IF calls.lr.value = None THEN 1 ELSE 2
         /\ (calls.lr.value = None \/ calls.p2.kind = "throw") <=> resp.code = 500
         /\ calls.lr.value = None => resp.error = "model_repair_failed"

\* the retry failed after a reload that returned a predictor
C2_Witness ==
  /\ resp.kind = "predict" /\ calls.p1.kind = "throw"
  /\ calls.lr.value # None /\ calls.p2.kind = "throw"
  /\ resp.code = 500 /\ loaderCalls = 1 /\ predictCalls = 2

\* the prediction the handler post-processed
Raw == IF predictCalls = 2 THEN calls.p2.x ELSE calls.p1.x
Clamped(v) == IF v < CLAMP_LO THEN CLAMP_LO ELSE IF v > CLAMP_HI THEN CLAMP_HI ELSE v

\* C3: every 200 carries a trunk_fat_percentage in [5.0, 50.0] that is a
\* whole number of tenths, and that is a tenth nearest to the raw prediction
\* clamped to that interval, from the first call or from the retry.
C3_ClampedAndRounded ==
  (resp.kind = "predict" /\ resp.code = 200) =>
    /\ CLAMP_LO <= resp.pct /\ resp.pct <= CLAMP_HI
    /\ resp.pct % Tenth = 0
    /\ Raw.kind = "fin" =>
         /\ 2 * (resp.pct - Clamped(Raw.v)) <= Tenth
         /\ 2 * (Clamped(Raw.v) - resp.pct) <= Tenth

\* a retry after a reload returned less than 5.0 and the answer is 5.0
C3_Witness ==
  /\ resp.kind = "predict" /\ resp.code = 200 /\ predictCalls = 2
  /\ calls.p2.x.kind = "fin" /\ calls.p2.x.v < CLAMP_LO
  /\ resp.pct = CLAMP_LO

\* C4: load_model() never raises: whatever fails, it returns a predictor or
\* None, the process goes on and /health is answered 200.
C4_LoadNeverRaises ==
  /\ phase # "crashed"
  /\ phase = "loaded" =>
       /\ ~loadTrace.raised
       /\ loadTrace.value \in {None, Rebuilt, Original, [Original EXCEPT !.patched = TRUE]}
       /\ model = loadTrace.value
       /\ (loadEnv.artifact = "missing" \/ ~loadEnv.joblibOK) => loadTrace.value = None
       /\ (~loadEnv.test1OK /\ ~loadEnv.test2OK) => loadTrace.value = None
  /\ resp.kind = "health" => resp.code = 200

\* the re-test after a failed deep repair threw, and /health still answers
C4_Witness ==
  /\ phase = "loaded" /\ loadTrace.deepFix /\ loadEnv.repairFail = "fit"
  /\ ~loadEnv.test2OK /\ model = None
  /\ resp.kind = "health" /\ resp.health.status = "model_not_loaded"

\* C5: no run of deep repair ends with its temporary file still existing.
C5_TmpFileRemoved == phase = "loaded" => ~tmpLeaked

\* C6: with the five fields present, a numeric field whose value does not
\* parse as a number is answered 400, whatever kind of value it is.
C6_NonNumericIs400 ==
  (phase = "answered" /\ AllPresent(req) /\ ~AllParse(req)) => resp.code = 400

\* C7: GET /health answers 200 with status "healthy" exactly when the global
\* predictor is not None and "model_not_loaded" otherwise, model_loaded the
\* same condition and the five feature names; it changes neither the
\* predictor nor the temporary files and calls neither the loader nor predict.
C7_HealthIsPureRead ==
  [][resp'.kind = "health" =>
       /\ model' = model /\ tmpLeaked' = tmpLeaked /\ phase' = phase
       /\ loaderCalls' = 0 /\ predictCalls' = 0
       /\ resp'.code = 200
       /\ resp'.health.status = (IF model # None THEN "healthy" ELSE "model_not_loaded")
       /\ resp'.health.model_loaded = (model # None)
       /\ resp'.health.features = <<"Female", "Waist", "Height", "Weight", "Age">>]_vars

\* /health answered with no predictor while the process serves
C7_Witness ==
  /\ phase = "serving" /\ resp.kind = "health" /\ model = None
  /\ resp.health.status = "model_not_loaded" /\ ~resp.health.model_loaded

\* C8: the recommendation has 2 items below 25, 4 items from 28.6 to below
\* 35 and 6 items from 35 up, the four items of >= 28.6 first and in order,
\* then the two of >= 35; the items of >= 28.6 and those of < 25 never occur
\* together; 30.0 gives risk level "higher" and exactly the four items.
C8_Recommendation ==
  phase = "interpreted" =>
    LET rec == interpretation.recommendation
        items == {rec[i] : i \in 1..Len(rec)}
        high == {REC_HIGH[i] : i \in 1..Len(REC_HIGH)}
        low == {REC_LOW[i] : i \in 1..Len(REC_LOW)}
    IN /\ percentage < T25 => (Len(rec) = 2 /\ items = low)
       /\ (percentage >= CUTOFF /\ percentage < T35) => (Len(rec) = 4 /\ rec = REC_HIGH)
       /\ percentage >= T35 =>
            (Len(rec) = 6 /\ SubSeq(rec, 1, 4) = REC_HIGH /\ SubSeq(rec, 5, 6) = REC_VERY_HIGH)
       /\ ~(items \cap high # {} /\ items \cap low # {})
       /\ percentage = 30 * 10 * Tenth =>
            (interpretation.risk_level = "higher" /\ rec = REC_HIGH)

\* 35.0 and more: six items
C8_Witness ==
  /\ phase = "interpreted" /\ percentage >= T35
  /\ Len(interpretation.recommendation) = 6

\* C9: once the global predictor is None it stays None under every request;
\* every valid POST /predict is then answered 500 "model not loaded" without
\* a loader call, and /health reports model_not_loaded.
C9_NoneIsAbsorbing ==
  [][(phase = "serving" /\ model = None) =>
       /\ model' = None
       /\ loaderCalls' = 0
       /\ (resp'.kind = "predict" /\ ValidRequest(req')) =>
            (resp'.code = 500 /\ resp'.error = "model_not_loaded")
       /\ resp'.kind = "health" => resp'.health.status = "model_not_loaded"]_vars

\* a valid request answered "model not loaded"
C9_Witness ==
  /\ phase = "serving" /\ model = None /\ resp.kind = "predict"
  /\ ValidRequest(req) /\ resp.code = 500 /\ resp.error = "model_not_loaded"

\* C10: load_model() returns a predictor only when its last self-test
\* predict call was made on that predictor and succeeded: the first test on
\* the patched original, or the re-test on what deep repair returned; when
\* the re-test throws it returns None.
C10_ReturnedPredictorPassedSelfTest ==
  phase = "loaded" =>
    /\ loadTrace.value # None =>
         /\ loadTrace.lastTestOK /\ loadTrace.lastTestOn = loadTrace.value
         /\ \/ loadEnv.test1OK /\ loadTrace.tests = 1 /\ ~loadTrace.deepFix
                 /\ loadTrace.value.kind = "original"
            \/ ~loadEnv.test1OK /\ loadEnv.test2OK /\ loadTrace.tests = 2
                 /\ loadTrace.deepFix
    /\ (loadTrace.deepFix /\ ~loadEnv.test2OK) => loadTrace.value = None

\* deep repair handed back the original, the re-test threw, None returned
C10_Witness ==
  /\ phase = "loaded" /\ loadTrace.deepFix
  /\ loadTrace.lastTestOn.kind = "original" /\ ~loadTrace.lastTestOK
  /\ loadTrace.value = None

====
